---- MODULE Spec2Model ----
(***************************************************************************)
(* Mutation-validation pipeline of the racks inventory manager             *)
(* (racks/mainapp/mixins.py): the checks of ChecksMixin, their reduction   *)
(* to one Result, and the post/put/delete handlers that run them before a  *)
(* write.  The service layer (mainapp.services) and the view classes are   *)
(* not part of the sources at hand; they are modelled from the design      *)
(* document and marked as such.                                            *)
(***************************************************************************)
EXTENDS Integers, Sequences, FiniteSets, TLC

VARIABLES
    racks,        \* persisted racks: id -> [rack_amount, department]
    devices,      \* persisted devices: id -> [rack_id, first_unit, last_unit, frontside_location, name]
    names,        \* names of the objects of the location hierarchy: <<parent id, parent model>> -> set of names
    last,         \* the last request or call: what was asked (history)
    checks,       \* what get_checks produced on the last request: [raised, results]
    response,     \* the last response or returned Result
    in_flight     \* the requests that workers handle side by side: worker -> request and its stage

vars == <<racks, devices, names, last, checks, response, in_flight>>

-----------------------------------------------------------------------------
(* Bounds of the model *)

MaxDevices == 2          \* device ids 1..MaxDevices
MaxUnit == 3             \* unit numbers of a payload: 0..MaxUnit
MaxChecks == 2           \* longest checks_list of the pipeline specification
MaxResults == 3          \* longest results_list handed to get_checks_result

-----------------------------------------------------------------------------
(* Python values *)

\* Optional[T]: None is the empty set, a present value x is {x}
None == {}
Some(x) == {x}
Val(o) == CHOOSE x \in o : TRUE

\* mainapp.utils.Result(success, message)
Result(success, message) == [success |-> success, message |-> message]

permission_alert == "Permission alert, changes are prohibited"
units_exist_message == "There are no such units in this rack"
units_busy_message == "These units are busy"
missing_first_unit == "Missing required data - first_unit"
missing_last_unit == "Missing required data - last_unit"
missing_frontside_location == "Missing required data - frontside_location"
\* f"A {self.model_name} with the same name already exists", for the one
\* model_name of the view at hand
same_name_message == "A object with the same name already exists"
Success == Result(TRUE, "Success")

-----------------------------------------------------------------------------
(* The domain of the model *)

RackIds == {1, 2}
DeviceIds == 1..MaxDevices
Departments == {"A", "B"}
Names == {"n1", "n2"}
Units == 0..MaxUnit

\* The racks of an inventory: the amounts of units of rack 1 and rack 2;
\* rack 1 belongs to department A, rack 2 to department B.
Racks(amount1, amount2) ==
    [r \in RackIds |-> IF r = 1 THEN [rack_amount |-> amount1, department |-> "A"]
                                ELSE [rack_amount |-> amount2, department |-> "B"]]

InitialRacks == Racks(2, 1)

Tokens == {"check_user", "check_unique", "check_device_for_add",
           "check_device_for_update", "check_other"}

\* The view classes (configuration): which model the view works on, the
\* model of its foreign key, and its checks_list.
View(model, fk_model, checks_list) ==
    [model |-> model, fk_model |-> fk_model, checks_list |-> checks_list]

DeviceAddView == View("Rack", "Rack", <<"check_user", "check_device_for_add">>)
DeviceUpdateView == View("Device", "Rack", <<"check_user", "check_device_for_update">>)
DeviceDeleteView == View("Device", "Rack", <<"check_user">>)

-----------------------------------------------------------------------------
(* The service layer, as the checks use it *)

\* DeviceCheckService.get_new_units
get_new_units(first_unit, last_unit) ==
    [first_unit |-> first_unit, last_unit |-> last_unit]

\* DeviceCheckService.get_old_units: the persisted placement of device pk
get_old_units(pk) ==
    [device_id |-> pk,
     first_unit |-> devices[pk].first_unit,
     last_unit |-> devices[pk].last_unit]

\* RepoService.get_device_rack_id
get_device_rack_id(pk) == devices[pk].rack_id

\* the unit slots {first..last} of an interval
unit_range(units) == units.first_unit .. units.last_unit

\* overlap of the closed intervals [a,b] and [c,d]
overlaps(a, b, c, d) == a <= d /\ c <= b

\* DeviceCheckService.check_unit_exist: TRUE when some unit of the interval
\* is not a unit of the rack
check_unit_exist(new_units, rack_id) ==
    ~ (unit_range(new_units) \subseteq 1..racks[rack_id].rack_amount)

\* the placements of a rack on one face
get_placements_for_rack(rack_id, face) ==
    {d \in DOMAIN devices : /\ devices[d].rack_id = rack_id
                            /\ devices[d].frontside_location = face}

\* DeviceCheckService.check_unit_busy: TRUE when the interval intersects a
\* placement of the rack on that face, the device of old_units excepted
check_unit_busy(frontside_location, rack_id, new_units, old_units) ==
    \E d \in get_placements_for_rack(rack_id, frontside_location) :
        /\ (old_units = None \/ d # Val(old_units).device_id)
        /\ overlaps(new_units.first_unit, new_units.last_unit,
                    devices[d].first_unit, devices[d].last_unit)

\* the department of a room: room 1 belongs to department A, room 2 to B,
\* and so does the rack that stands in the room
room_department(room) == IF room = 1 THEN "A" ELSE "B"

\* the departments that own an object
get_department_owners(model, pk) ==
    IF model = "Rack" THEN {racks[pk].department}
    ELSE IF model = "Room" THEN {room_department(pk)}
    ELSE {racks[devices[pk].rack_id].department}

\* UserCheckService.check_for_groups
check_for_groups(user_groups, pk, model) ==
    user_groups \cap get_department_owners(model, pk) # {}

\* UniqueCheckService.get_unique_object_names_list: the names in the scope
\* of the parent object; the objects in the scope of a rack are its devices
get_unique_object_names_list(id, model) ==
    IF model = "Rack"
    THEN {n \in Names : \E d \in DOMAIN devices :
              devices[d].rack_id = id /\ devices[d].name = Some(n)}
    ELSE names[<<id, model>>]

\* DataProcessingService.update_rack_amount ("prevent rack amount
\* updating"): a rack amount in the payload gives way to the persisted one;
\* the payload of a device carries no rack amount
update_rack_amount(data, pk) ==
    IF "rack_amount" \in DOMAIN data /\ data.rack_amount # None
    THEN [data EXCEPT !.rack_amount = Some(racks[pk].rack_amount)]
    ELSE data

\* DataProcessingService.get_key_name: the name the payload carries
get_key_name(data) == data.name

\* DataProcessingService.get_instance_name: the persisted name of the object
get_instance_name(pk, model) == devices[pk].name

-----------------------------------------------------------------------------
(* ChecksMixin *)

\* _check_user that lets every user through
_check_user_everyone(user_groups, pk, model) == Success

_check_user(user_groups, pk, model) ==
    IF ~ check_for_groups(user_groups, pk, model)
    THEN Result(FALSE, permission_alert)
    ELSE Success

\* _check_unique without the shortcut for an unchanged name
_check_unique_no_shortcut(pk, fk, model, fk_model, instance_name, key_name) ==
    LET names_list == IF fk = None
                      THEN get_unique_object_names_list(pk, model)
                      ELSE get_unique_object_names_list(Val(fk), fk_model)
    IN  IF key_name # None /\ Val(key_name) \in names_list
        THEN Result(FALSE, same_name_message)
        ELSE Success

\* _check_unique looking up the siblings by (pk, model) whatever fk is
_check_unique_own_scope(pk, fk, model, fk_model, instance_name, key_name) ==
    IF instance_name # key_name
    THEN LET names_list == get_unique_object_names_list(pk, model)
         IN  IF key_name # None /\ Val(key_name) \in names_list
             THEN Result(FALSE, same_name_message)
             ELSE Success
    ELSE Success

_check_unique(pk, fk, model, fk_model, instance_name, key_name) ==
    IF instance_name # key_name
    THEN LET names_list == IF fk = None
                           THEN get_unique_object_names_list(pk, model)
                           ELSE get_unique_object_names_list(Val(fk), fk_model)
         IN  IF key_name # None /\ Val(key_name) \in names_list
             THEN Result(FALSE, same_name_message)
             ELSE Success
    ELSE Success

\* _check_device_for_add without its busy-units check
_check_device_for_add_exist_only(pk, data) ==
    IF data.first_unit = None THEN Result(FALSE, missing_first_unit)
    ELSE IF data.last_unit = None THEN Result(FALSE, missing_last_unit)
    ELSE IF data.frontside_location = None
         THEN Result(FALSE, missing_frontside_location)
    ELSE IF check_unit_exist(get_new_units(Val(data.first_unit),
                                           Val(data.last_unit)), pk)
         THEN Result(FALSE, units_exist_message)
         ELSE Success

\* _check_device_for_add looking at both faces of the rack
_check_device_for_add_both_faces(pk, data) ==
    IF data.first_unit = None THEN Result(FALSE, missing_first_unit)
    ELSE IF data.last_unit = None THEN Result(FALSE, missing_last_unit)
    ELSE IF data.frontside_location = None
         THEN Result(FALSE, missing_frontside_location)
    ELSE LET new_units == get_new_units(Val(data.first_unit), Val(data.last_unit))
         IN  IF check_unit_exist(new_units, pk)
             THEN Result(FALSE, units_exist_message)
             ELSE IF \E face \in BOOLEAN :
                         check_unit_busy(face, pk, new_units, None)
             THEN Result(FALSE, units_busy_message)
             ELSE Success

\* _check_device_for_add reading the occupancy of the opposite face
_check_device_for_add_other_face(pk, data) ==
    IF data.first_unit = None THEN Result(FALSE, missing_first_unit)
    ELSE IF data.last_unit = None THEN Result(FALSE, missing_last_unit)
    ELSE IF data.frontside_location = None
         THEN Result(FALSE, missing_frontside_location)
    ELSE LET new_units == get_new_units(Val(data.first_unit), Val(data.last_unit))
         IN  IF check_unit_exist(new_units, pk)
             THEN Result(FALSE, units_exist_message)
             ELSE IF check_unit_busy(~ Val(data.frontside_location), pk,
                                     new_units, None)
             THEN Result(FALSE, units_busy_message)
             ELSE Success

\* _check_device_for_add taking a falsy field (unit 0, face False) for a
\* missing one
_check_device_for_add_falsy_missing(pk, data) ==
    IF data.first_unit \in {None, Some(0)} THEN Result(FALSE, missing_first_unit)
    ELSE IF data.last_unit \in {None, Some(0)}
         THEN Result(FALSE, missing_last_unit)
    ELSE IF data.frontside_location \in {None, Some(FALSE)}
         THEN Result(FALSE, missing_frontside_location)
    ELSE LET new_units == get_new_units(Val(data.first_unit), Val(data.last_unit))
         IN  IF check_unit_exist(new_units, pk)
             THEN Result(FALSE, units_exist_message)
             ELSE IF check_unit_busy(Val(data.frontside_location), pk,
                                     new_units, None)
             THEN Result(FALSE, units_busy_message)
             ELSE Success

_check_device_for_add(pk, data) ==
    IF data.first_unit = None THEN Result(FALSE, missing_first_unit)
    ELSE IF data.last_unit = None THEN Result(FALSE, missing_last_unit)
    ELSE IF data.frontside_location = None
         THEN Result(FALSE, missing_frontside_location)
    ELSE LET new_units == get_new_units(Val(data.first_unit), Val(data.last_unit))
         IN  IF check_unit_exist(new_units, pk)
             THEN Result(FALSE, units_exist_message)
             ELSE IF check_unit_busy(Val(data.frontside_location), pk,
                                     new_units, None)
             THEN Result(FALSE, units_busy_message)
             ELSE Success

\* _check_device_for_update with the busy-units check ahead of the
\* existence check
_check_device_for_update_busy_first(pk, data) ==
    IF data.first_unit = None THEN Result(FALSE, missing_first_unit)
    ELSE IF data.last_unit = None THEN Result(FALSE, missing_last_unit)
    ELSE IF data.frontside_location = None
         THEN Result(FALSE, missing_frontside_location)
    ELSE LET rack_id == get_device_rack_id(pk)
             old_units == get_old_units(pk)
             new_units == get_new_units(Val(data.first_unit), Val(data.last_unit))
         IN  IF check_unit_busy(Val(data.frontside_location), rack_id,
                                new_units, Some(old_units))
             THEN Result(FALSE, units_busy_message)
             ELSE IF check_unit_exist(new_units, rack_id)
             THEN Result(FALSE, units_exist_message)
             ELSE Success

\* _check_device_for_update handing no old_units to the busy-units check
_check_device_for_update_no_old_units(pk, data) ==
    IF data.first_unit = None THEN Result(FALSE, missing_first_unit)
    ELSE IF data.last_unit = None THEN Result(FALSE, missing_last_unit)
    ELSE IF data.frontside_location = None
         THEN Result(FALSE, missing_frontside_location)
    ELSE LET rack_id == get_device_rack_id(pk)
             new_units == get_new_units(Val(data.first_unit), Val(data.last_unit))
         IN  IF check_unit_exist(new_units, rack_id)
             THEN Result(FALSE, units_exist_message)
             ELSE IF check_unit_busy(Val(data.frontside_location), rack_id,
                                     new_units, None)
             THEN Result(FALSE, units_busy_message)
             ELSE Success

\* _check_device_for_update reading the face from the persisted device
\* instead of the payload
_check_device_for_update_persisted_face(pk, data) ==
    IF data.first_unit = None THEN Result(FALSE, missing_first_unit)
    ELSE IF data.last_unit = None THEN Result(FALSE, missing_last_unit)
    ELSE IF data.frontside_location = None
         THEN Result(FALSE, missing_frontside_location)
    ELSE LET rack_id == get_device_rack_id(pk)
             old_units == get_old_units(pk)
             new_units == get_new_units(Val(data.first_unit), Val(data.last_unit))
         IN  IF check_unit_exist(new_units, rack_id)
             THEN Result(FALSE, units_exist_message)
             ELSE IF check_unit_busy(devices[pk].frontside_location, rack_id,
                                     new_units, Some(old_units))
             THEN Result(FALSE, units_busy_message)
             ELSE Success

_check_device_for_update(pk, data) ==
    IF data.first_unit = None THEN Result(FALSE, missing_first_unit)
    ELSE IF data.last_unit = None THEN Result(FALSE, missing_last_unit)
    ELSE IF data.frontside_location = None
         THEN Result(FALSE, missing_frontside_location)
    ELSE LET rack_id == get_device_rack_id(pk)
             old_units == get_old_units(pk)
             new_units == get_new_units(Val(data.first_unit), Val(data.last_unit))
         IN  IF check_unit_exist(new_units, rack_id)
             THEN Result(FALSE, units_exist_message)
             ELSE IF check_unit_busy(Val(data.frontside_location), rack_id,
                                     new_units, Some(old_units))
             THEN Result(FALSE, units_busy_message)
             ELSE Success

\* one iteration of the loop of get_checks: the Result of one known token;
\* kw holds the arguments of get_checks
run_check(check, kw) ==
    IF check = "check_user" THEN _check_user(kw.user_groups, kw.pk, kw.model)
    ELSE IF check = "check_unique"
         THEN _check_unique(kw.pk, kw.fk, kw.model, kw.fk_model,
                            kw.instance_name, kw.key_name)
    ELSE IF check = "check_device_for_add"
         THEN _check_device_for_add(kw.pk, kw.data)
    ELSE _check_device_for_update(kw.pk, kw.data)

KnownChecks == {"check_user", "check_unique", "check_device_for_add",
                "check_device_for_update"}

\* the loop of get_checks leaving at the first failed check
RECURSIVE get_checks_from_until_failure(_, _, _, _)
get_checks_from_until_failure(i, check_results_list, checks_list, kw) ==
    IF i > Len(checks_list)
    THEN [raised |-> FALSE, results |-> check_results_list]
    ELSE IF checks_list[i] \notin KnownChecks
         THEN [raised |-> TRUE, results |-> check_results_list]
    ELSE IF ~ run_check(checks_list[i], kw).success
         THEN [raised |-> FALSE,
               results |-> Append(check_results_list, run_check(checks_list[i], kw))]
    ELSE get_checks_from_until_failure(i + 1,
                         Append(check_results_list, run_check(checks_list[i], kw)),
                         checks_list, kw)

\* the loop of get_checks passing over the tokens it does not know
RECURSIVE get_checks_from_skipping(_, _, _, _)
get_checks_from_skipping(i, check_results_list, checks_list, kw) ==
    IF i > Len(checks_list)
    THEN [raised |-> FALSE, results |-> check_results_list]
    ELSE IF checks_list[i] \notin KnownChecks
         THEN get_checks_from_skipping(i + 1, check_results_list, checks_list, kw)
    ELSE get_checks_from_skipping(i + 1,
                         Append(check_results_list, run_check(checks_list[i], kw)),
                         checks_list, kw)

\* get_checks: the Results of the tokens of checks_list, in order; an unknown
\* token raises ValueError, and `results` is then what the loop had collected
RECURSIVE get_checks_from(_, _, _, _)
get_checks_from(i, check_results_list, checks_list, kw) ==
    IF i > Len(checks_list)
    THEN [raised |-> FALSE, results |-> check_results_list]
    ELSE IF checks_list[i] \notin KnownChecks
         THEN [raised |-> TRUE, results |-> check_results_list]
    ELSE get_checks_from(i + 1,
                         Append(check_results_list, run_check(checks_list[i], kw)),
                         checks_list, kw)

get_checks(checks_list, kw) == get_checks_from(1, <<>>, checks_list, kw)

\* get_checks_result returning the last failure of the list
RECURSIVE get_checks_result_last_failure(_)
get_checks_result_last_failure(results_list) ==
    IF results_list = <<>> THEN Success
    ELSE IF ~ results_list[Len(results_list)].success
         THEN results_list[Len(results_list)]
    ELSE get_checks_result_last_failure(SubSeq(results_list, 1, Len(results_list) - 1))

\* get_checks_result: the first failure of the list, or the canonical success
RECURSIVE get_checks_result(_)
get_checks_result(results_list) ==
    IF results_list = <<>> THEN Success
    ELSE IF ~ Head(results_list).success THEN Head(results_list)
    ELSE get_checks_result(Tail(results_list))

-----------------------------------------------------------------------------
(* Serializers and persistence *)

\* DeviceSerializer: a ModelSerializer that lists the fields of Device and
\* declares no validation of its own
is_valid(data) == TRUE

\* the id the database gives a new device
new_device_id == CHOOSE d \in DeviceIds : d \notin DOMAIN devices

\* serializer.save(): a new device with the fields of the payload
serializer_save(data) ==
    devices' = [d \in DOMAIN devices \cup {new_device_id} |->
                   IF d \in DOMAIN devices THEN devices[d]
                   ELSE [rack_id |-> Val(data.rack),
                         first_unit |-> Val(data.first_unit),
                         last_unit |-> Val(data.last_unit),
                         frontside_location |-> Val(data.frontside_location),
                         name |-> data.name]]

\* setattr(instance, key, value) for the items of data, then instance.save()
instance_save(pk, data) ==
    devices' = [devices EXCEPT ![pk] =
                   [rack_id |-> Val(data.rack),
                    first_unit |-> IF data.first_unit = None THEN @.first_unit
                                   ELSE Val(data.first_unit),
                    last_unit |-> IF data.last_unit = None THEN @.last_unit
                                  ELSE Val(data.last_unit),
                    frontside_location |->
                        IF data.frontside_location = None THEN @.frontside_location
                        ELSE Val(data.frontside_location),
                    name |-> IF data.name = None THEN @.name ELSE data.name]]

\* instance.delete()
instance_delete(pk) ==
    devices' = [d \in DOMAIN devices \ {pk} |-> devices[d]]

-----------------------------------------------------------------------------
(* The handlers *)

\* rest_framework Response(body, status)
Response(kind, message, status) ==
    [kind |-> kind, message |-> message, status |-> status]

NoResponse == Response("none", "", 0)
NoChecks == [raised |-> FALSE, results |-> <<>>]
NoRequest == [op |-> "none"]

\* the workers of the server that handle requests side by side, and the
\* stage of a worker that handles none
Workers == {"w1", "w2"}
Idle == [stage |-> "idle"]
NoneInFlight == [w \in Workers |-> Idle]

\* the ValueError of get_checks leaves the handler as an unhandled exception
ValueErrorResponse == Response("ValueError", "check: str must be", 500)

\* what `last` keeps of a request
Request(op, view, user_groups, data) ==
    [op |-> op, view |-> view, user_groups |-> user_groups, data |-> data]

\* a handler that answers before it runs any check
Refuse(message, status) ==
    /\ response' = Response("invalid", message, status)
    /\ checks' = NoChecks
    /\ UNCHANGED <<racks, devices, names>>

\* BaseApiAddMixin.post
post(view, user_groups, data) ==
    IF data.rack = None THEN Refuse("Need fk for post method", 200)
       ELSE LET pk == Val(data.rack) IN
       IF pk \notin DOMAIN racks
       THEN Refuse("Rack with this ID does not exist", 400)
       ELSE LET key_name == get_key_name(data) IN
       IF ~ is_valid(data) THEN Refuse("Not good data", 400)
       ELSE LET got == get_checks(view.checks_list,
                                  [user_groups |-> user_groups, pk |-> pk,
                                   data |-> data, fk |-> None,
                                   model |-> view.model, fk_model |-> None,
                                   instance_name |-> None,
                                   key_name |-> key_name])
                result == get_checks_result(got.results)
            IN  /\ checks' = got
                /\ UNCHANGED <<racks, names>>
                /\ IF got.raised
                   THEN /\ response' = ValueErrorResponse
                        /\ UNCHANGED devices
                   ELSE IF ~ result.success
                   THEN /\ response' = Response("invalid", result.message, 400)
                        /\ UNCHANGED devices
                   ELSE /\ DOMAIN devices # DeviceIds
                        /\ serializer_save(data)
                        /\ response' = Response("sucsess", "sucsessfully added", 200)

\* put that keeps the foreign key the payload carries
put_payload_fk(view, user_groups, request_data) ==
    IF request_data.id = None THEN Refuse("Need id for put method", 200)
       ELSE LET pk == Val(request_data.id) IN
       IF pk \notin DOMAIN devices
       THEN Refuse("Device with this ID does not exist", 400)
       ELSE LET fk == IF request_data.rack = None THEN devices[pk].rack_id
                      ELSE Val(request_data.rack)
                data == update_rack_amount([request_data EXCEPT !.rack = Some(fk)], pk)
                key_name == get_key_name(data)
                instance_name == get_instance_name(pk, view.model)
            IN
       IF fk \notin DOMAIN racks THEN Refuse("Not good data", 400)
       ELSE LET got == get_checks(view.checks_list,
                                  [user_groups |-> user_groups, pk |-> pk,
                                   data |-> data, fk |-> Some(fk),
                                   model |-> view.model,
                                   fk_model |-> view.fk_model,
                                   instance_name |-> instance_name,
                                   key_name |-> key_name])
                result == get_checks_result(got.results)
            IN  /\ checks' = got
                /\ UNCHANGED <<racks, names>>
                /\ IF got.raised
                   THEN /\ response' = ValueErrorResponse
                        /\ UNCHANGED devices
                   ELSE IF ~ result.success
                   THEN /\ response' = Response("invalid", result.message, 400)
                        /\ UNCHANGED devices
                   ELSE /\ instance_save(pk, data)
                        /\ response' = Response("sucsess", "sucsessfully updated", 200)

\* BaseApiUpdateMixin.put
put(view, user_groups, request_data) ==
    IF request_data.id = None THEN Refuse("Need id for put method", 200)
       ELSE LET pk == Val(request_data.id) IN
       IF pk \notin DOMAIN devices
       THEN Refuse("Device with this ID does not exist", 400)
       ELSE LET fk == devices[pk].rack_id
                data == update_rack_amount([request_data EXCEPT !.rack = Some(fk)], pk)
                key_name == get_key_name(data)
                instance_name == get_instance_name(pk, view.model)
            IN
       IF ~ is_valid(data) THEN Refuse("Not good data", 400)
       ELSE LET got == get_checks(view.checks_list,
                                  [user_groups |-> user_groups, pk |-> pk,
                                   data |-> data, fk |-> Some(fk),
                                   model |-> view.model,
                                   fk_model |-> view.fk_model,
                                   instance_name |-> instance_name,
                                   key_name |-> key_name])
                result == get_checks_result(got.results)
            IN  /\ checks' = got
                /\ UNCHANGED <<racks, names>>
                /\ IF got.raised
                   THEN /\ response' = ValueErrorResponse
                        /\ UNCHANGED devices
                   ELSE IF ~ result.success
                   THEN /\ response' = Response("invalid", result.message, 400)
                        /\ UNCHANGED devices
                   ELSE /\ instance_save(pk, data)
                        /\ response' = Response("sucsess", "sucsessfully updated", 200)

\* delete with instance.delete() ahead of the look at the Result
delete_before_result(view, user_groups, data) ==
    IF data.id = None THEN Refuse("Need id for delete method", 200)
       ELSE LET pk == Val(data.id) IN
       IF pk \notin DOMAIN devices
       THEN Refuse("Device with this ID does not exist", 400)
       ELSE LET got == get_checks(view.checks_list,
                                  [user_groups |-> user_groups, pk |-> pk,
                                   data |-> data, fk |-> None,
                                   model |-> view.model, fk_model |-> None,
                                   instance_name |-> None, key_name |-> None])
                result == get_checks_result(got.results)
            IN  /\ checks' = got
                /\ UNCHANGED <<racks, names>>
                /\ IF got.raised
                   THEN /\ response' = ValueErrorResponse
                        /\ UNCHANGED devices
                   ELSE /\ instance_delete(pk)
                        /\ response' =
                              IF ~ result.success
                              THEN Response("invalid", result.message, 400)
                              ELSE Response("sucsess", "sucsessfully deleted", 200)

\* BaseApiDeleteMixin.delete
delete(view, user_groups, data) ==
    IF data.id = None THEN Refuse("Need id for delete method", 200)
       ELSE LET pk == Val(data.id) IN
       IF pk \notin DOMAIN devices
       THEN Refuse("Device with this ID does not exist", 400)
       ELSE LET got == get_checks(view.checks_list,
                                  [user_groups |-> user_groups, pk |-> pk,
                                   data |-> data, fk |-> None,
                                   model |-> view.model, fk_model |-> None,
                                   instance_name |-> None, key_name |-> None])
                result == get_checks_result(got.results)
            IN  /\ checks' = got
                /\ UNCHANGED <<racks, names>>
                /\ IF got.raised
                   THEN /\ response' = ValueErrorResponse
                        /\ UNCHANGED devices
                   ELSE IF ~ result.success
                   THEN /\ response' = Response("invalid", result.message, 400)
                        /\ UNCHANGED devices
                   ELSE /\ instance_delete(pk)
                        /\ response' = Response("sucsess", "sucsessfully deleted", 200)

-----------------------------------------------------------------------------
(* Requests *)

Optional(S) == {None} \cup {Some(x) : x \in S}

\* the groups of the acting user
UserGroups == {{}, {"A"}, {"B"}}

\* request.data: the keys of the payload that the handlers and checks read
Data(id, rack, first_unit, last_unit, frontside_location, name) ==
    [id |-> id, rack |-> rack, first_unit |-> first_unit,
     last_unit |-> last_unit, frontside_location |-> frontside_location,
     name |-> name]

\* the unit fields of a payload: complete ones, whose interval is ordered
\* first_unit <= last_unit, and the ones that lack some of the fields
CompleteUnits ==
    {u \in [first_unit : Optional(Units) \ {None},
            last_unit : Optional(Units) \ {None},
            frontside_location : Optional(BOOLEAN) \ {None}] :
        Val(u.first_unit) <= Val(u.last_unit)}

PartialUnits ==
    {u \in [first_unit : {None, Some(1)}, last_unit : {None, Some(1)},
            frontside_location : {None, Some(TRUE)}] :
        None \in {u.first_unit, u.last_unit, u.frontside_location}}

\* the ones that lack some of the fields and carry falsy values in the others
FalsyPartialUnits ==
    {u \in [first_unit : {None, Some(0)}, last_unit : {None, Some(0)},
            frontside_location : {None, Some(FALSE)}] :
        None \in {u.first_unit, u.last_unit, u.frontside_location}}

NoUnits == [first_unit |-> None, last_unit |-> None, frontside_location |-> None]

Payloads(ids, rack_ids, unit_fields, payload_names) ==
    {Data(id, rack, u.first_unit, u.last_unit, u.frontside_location, name) :
        id \in ids, rack \in rack_ids, u \in unit_fields, name \in payload_names}

\* an id no rack has, and an id no device has
NoSuchRack == Cardinality(RackIds) + 1
NoSuchDevice == MaxDevices + 1

\* the payloads of the device views: the ones that name an object, and the
\* ones that name none or one that does not exist
AddPayloads ==
    Payloads({None}, Optional(RackIds) \ {None},
             CompleteUnits \cup PartialUnits, {None})
    \cup Payloads({None}, {None, Some(NoSuchRack)}, {NoUnits}, {None})

UpdatePayloads ==
    Payloads(Optional(DeviceIds) \ {None}, {None},
             CompleteUnits \cup PartialUnits, {None})
    \cup Payloads({None, Some(NoSuchDevice)}, {None}, {NoUnits}, {None})

DeletePayloads ==
    Payloads(Optional(DeviceIds \cup {NoSuchDevice}), {None}, {NoUnits}, {None})

-----------------------------------------------------------------------------
(* The inventory under sequential requests to the device views *)

EmptyNames == [k \in {} |-> {}]
EmptyDevices == [d \in {} |-> {}]

Init ==
    /\ racks = InitialRacks
    /\ devices = EmptyDevices
    /\ names = EmptyNames
    /\ last = NoRequest
    /\ checks = NoChecks
    /\ response = NoResponse
    /\ in_flight = NoneInFlight

DeviceAdd ==
    \E user_groups \in UserGroups, data \in AddPayloads :
        post(DeviceAddView, user_groups, data) /\ UNCHANGED <<last, in_flight>>

DeviceUpdate ==
    \E user_groups \in UserGroups, data \in UpdatePayloads :
        put(DeviceUpdateView, user_groups, data) /\ UNCHANGED <<last, in_flight>>

DeviceDelete ==
    \E user_groups \in UserGroups, data \in DeletePayloads :
        delete(DeviceDeleteView, user_groups, data) /\ UNCHANGED <<last, in_flight>>

Next == DeviceAdd \/ DeviceUpdate \/ DeviceDelete

Spec == Init /\ [][Next]_vars

-----------------------------------------------------------------------------
(* The checks as functions of the inventory they read *)

\* the unit slots a persisted device occupies
device_units(d) == devices[d].first_unit .. devices[d].last_unit

\* the placements a rack can hold
Placements(rack_map) ==
    {p \in [rack_id : DOMAIN rack_map, first_unit : Units, last_unit : Units,
            frontside_location : BOOLEAN, name : {None}] :
        /\ 1 <= p.first_unit
        /\ p.first_unit <= p.last_unit
        /\ p.last_unit <= rack_map[p.rack_id].rack_amount}

\* the inventories the device views can build in these racks: every device
\* inside its rack, no two on one face of one rack sharing a unit
Inventories(rack_map) ==
    {db \in UNION {[S -> Placements(rack_map)] : S \in SUBSET DeviceIds} :
        \A d1, d2 \in DOMAIN db :
            (/\ d1 # d2
             /\ db[d1].rack_id = db[d2].rack_id
             /\ db[d1].frontside_location = db[d2].frontside_location)
            => (db[d1].first_unit .. db[d1].last_unit)
                   \cap (db[d2].first_unit .. db[d2].last_unit) = {}}

\* what `last` keeps of a call of one check
Call(op, pk, data) == [op |-> op, pk |-> pk, data |-> data]

\* what `checks` keeps of the Result a check returned
Returned(result) == [raised |-> FALSE, results |-> <<result>>]

CheckPayloads ==
    Payloads({None}, {None},
             CompleteUnits \cup PartialUnits \cup FalsyPartialUnits, {None})

\* one call is made on each inventory: `last` records it
InitChecks ==
    /\ racks = Racks(3, 2)
    /\ devices \in Inventories(racks)
    /\ names = EmptyNames
    /\ last = NoRequest
    /\ checks = NoChecks
    /\ response = NoResponse
    /\ in_flight = NoneInFlight

CallCheckDeviceForAdd ==
    /\ last = NoRequest
    /\ \E pk \in DOMAIN racks, data \in CheckPayloads :
            /\ last' = Call("_check_device_for_add", pk, data)
            /\ checks' = Returned(_check_device_for_add(pk, data))
            /\ UNCHANGED <<racks, devices, names, response, in_flight>>

CallCheckDeviceForUpdate ==
    /\ last = NoRequest
    /\ \E pk \in DOMAIN devices, data \in CheckPayloads :
            /\ last' = Call("_check_device_for_update", pk, data)
            /\ checks' = Returned(_check_device_for_update(pk, data))
            /\ UNCHANGED <<racks, devices, names, response, in_flight>>

NextChecks == CallCheckDeviceForAdd \/ CallCheckDeviceForUpdate

SpecChecks == InitChecks /\ [][NextChecks]_vars

-----------------------------------------------------------------------------
(* Properties of the call recorded in `last` *)

CalledAdd == last.op = "_check_device_for_add"
CalledUpdate == last.op = "_check_device_for_update"
CalledDeviceCheck == CalledAdd \/ CalledUpdate

\* the Result the recorded call returned
returned == checks.results[1]

\* the recorded payload carries first_unit, last_unit and frontside_location
UnitsPresent ==
    /\ last.data.first_unit # None
    /\ last.data.last_unit # None
    /\ last.data.frontside_location # None

proposed_first == Val(last.data.first_unit)
proposed_last == Val(last.data.last_unit)
proposed_face == Val(last.data.frontside_location)

\* the rack the recorded call is about
target_rack == IF CalledAdd THEN last.pk ELSE devices[last.pk].rack_id

ProposedInsideRack ==
    /\ 1 <= proposed_first
    /\ proposed_last <= racks[target_rack].rack_amount

\* device d stands in the target rack on the proposed face and its interval
\* [c,d] meets the proposed [a,b]: a <= d and c <= b
Conflicts(d) ==
    /\ devices[d].rack_id = target_rack
    /\ devices[d].frontside_location = proposed_face
    /\ proposed_first <= devices[d].last_unit
    /\ devices[d].first_unit <= proposed_last

-----------------------------------------------------------------------------
(* C1 *)

\* C1: in every state reached by device add, update and delete requests
\* handled one at a time, no two devices of one rack on one mounting face
\* occupy a common unit.
NoOverlap ==
    \A d1, d2 \in DOMAIN devices :
        (/\ d1 # d2
         /\ devices[d1].rack_id = devices[d2].rack_id
         /\ devices[d1].frontside_location = devices[d2].frontside_location)
        => device_units(d1) \cap device_units(d2) = {}

\* two devices share a face of a rack after a committed update
NoOverlapWitness ==
    /\ response.message = "sucsessfully updated"
    /\ \E d1, d2 \in DOMAIN devices :
          /\ d1 # d2
          /\ devices[d1].rack_id = devices[d2].rack_id
          /\ devices[d1].frontside_location = devices[d2].frontside_location

-----------------------------------------------------------------------------
(* C2 *)

\* C2: an add whose three unit fields are present and whose interval lies
\* inside the rack fails with 'These units are busy' exactly when some
\* device of that rack on that face has an interval [c,d] with a <= d and
\* c <= b, and succeeds otherwise.
AddBusyExactlyOnOverlap ==
    (CalledAdd /\ UnitsPresent /\ ProposedInsideRack)
    => IF \E d \in DOMAIN devices : Conflicts(d)
       THEN returned = Result(FALSE, units_busy_message)
       ELSE returned = Success

\* an add that shares exactly its first unit with a device of the face is
\* refused although a device of the opposite face is left alone
AddBusyWitness ==
    /\ CalledAdd /\ UnitsPresent /\ ProposedInsideRack
    /\ returned = Result(FALSE, units_busy_message)
    /\ \E d \in DOMAIN devices :
          /\ Conflicts(d)
          /\ devices[d].last_unit = proposed_first
          /\ devices[d].first_unit < proposed_first

-----------------------------------------------------------------------------
(* C3 *)

\* C3: in both device checks an interval with a unit outside
\* [1, rack_amount] of the target rack fails with 'There are no such units
\* in this rack', also when units of it are busy.
OutOfRangeFirst ==
    (CalledDeviceCheck /\ UnitsPresent /\ ~ ProposedInsideRack)
    => returned = Result(FALSE, units_exist_message)

\* an update reaching past the top of the rack and into another device
OutOfRangeWitness ==
    /\ CalledUpdate /\ UnitsPresent
    /\ proposed_last > racks[target_rack].rack_amount
    /\ \E d \in DOMAIN devices : d # last.pk /\ Conflicts(d)
    /\ returned = Result(FALSE, units_exist_message)

-----------------------------------------------------------------------------
(* C4 *)

\* C4: an update to an interval inside the rack, on the face the device
\* stands on, that meets no other device of that face succeeds, whatever
\* it shares with the device's own persisted interval.
UpdateIgnoresOwnPlacement ==
    (/\ CalledUpdate /\ UnitsPresent /\ ProposedInsideRack
     /\ proposed_face = devices[last.pk].frontside_location
     /\ \A d \in DOMAIN devices : d # last.pk => ~ Conflicts(d))
    => returned = Success

\* a device grown by one unit over its own placement, next to another one
UpdateOwnWitness ==
    /\ CalledUpdate /\ UnitsPresent /\ ProposedInsideRack
    /\ proposed_face = devices[last.pk].frontside_location
    /\ proposed_first = devices[last.pk].first_unit
    /\ proposed_last = devices[last.pk].last_unit + 1
    /\ \E d \in DOMAIN devices :
          /\ d # last.pk
          /\ devices[d].rack_id = target_rack
          /\ devices[d].frontside_location = proposed_face
    /\ returned = Success

-----------------------------------------------------------------------------
(* C5 *)

\* C5: an update whose interval lies inside the rack and meets another
\* device on the face named in the payload fails with 'These units are
\* busy', also when the shared units are units of the updated device.
UpdateChecksOthers ==
    (/\ CalledUpdate /\ UnitsPresent /\ ProposedInsideRack
     /\ \E d \in DOMAIN devices : d # last.pk /\ Conflicts(d))
    => returned = Result(FALSE, units_busy_message)

\* a device turned to the opposite face, keeping its interval, where another
\* device holds one of its units
UpdateOthersWitness ==
    /\ CalledUpdate /\ UnitsPresent /\ ProposedInsideRack
    /\ proposed_face # devices[last.pk].frontside_location
    /\ proposed_first = devices[last.pk].first_unit
    /\ proposed_last = devices[last.pk].last_unit
    /\ \E d \in DOMAIN devices : d # last.pk /\ Conflicts(d)
    /\ returned = Result(FALSE, units_busy_message)

-----------------------------------------------------------------------------
(* get_checks_result as a function of its list *)

\* the Results a list may hold
ResultValues ==
    {Success, Result(TRUE, "Allowed"),
     Result(FALSE, permission_alert), Result(FALSE, units_exist_message),
     Result(FALSE, units_busy_message)}

\* the sequences over S of length at most n
SeqUpTo(S, n) == UNION {[1..k -> S] : k \in 0..n}

InitReduce ==
    /\ racks = InitialRacks
    /\ devices = EmptyDevices
    /\ names = EmptyNames
    /\ last = NoRequest
    /\ checks \in {[raised |-> FALSE, results |-> l] :
                      l \in SeqUpTo(ResultValues, MaxResults)}
    /\ response = NoResponse
    /\ in_flight = NoneInFlight

CallGetChecksResult ==
    /\ last = NoRequest
    /\ last' = [op |-> "get_checks_result",
                result |-> get_checks_result(checks.results)]
    /\ UNCHANGED <<racks, devices, names, checks, response, in_flight>>

NextReduce == CallGetChecksResult

SpecReduce == InitReduce /\ [][NextReduce]_vars

\* the positions of the failures of the recorded list
Failures == {i \in 1..Len(checks.results) : ~ checks.results[i].success}
FirstFailure == CHOOSE i \in Failures : \A j \in Failures : i <= j

-----------------------------------------------------------------------------
(* C6 *)

\* C6: get_checks_result returns the first Result of the list, in list
\* order, whose success is false, and Result(True, 'Success') when the list
\* holds no failure or is empty.
FirstFailureWins ==
    last.op = "get_checks_result"
    => IF Failures = {} THEN last.result = Success
       ELSE last.result = checks.results[FirstFailure]

\* a success, then two different failures: the earlier one is returned
FirstFailureWitness ==
    /\ last.op = "get_checks_result"
    /\ Len(checks.results) = 3
    /\ checks.results[1].success
    /\ Failures = {2, 3}
    /\ checks.results[2] # checks.results[3]
    /\ last.result = checks.results[2]

-----------------------------------------------------------------------------
(* One request to a view with any checks_list *)

\* the device ids whose device is named "n1"; the others are named "n2"
NamedInventory(db) ==
    [d \in DOMAIN db |->
        [db[d] EXCEPT !.name = IF d % 2 = 1 THEN Some("n1") ELSE Some("n2")]]

PipeInventories == {NamedInventory(db) : db \in Inventories(InitialRacks)}

\* the tokens a checks_list may hold beside the unknown one: the checks
\* that read pk as the key of the view's object
AddTokens == {"check_user", "check_unique", "check_device_for_add", "check_other"}
UpdateTokens == {"check_user", "check_unique", "check_device_for_update", "check_other"}

AddViews == {View("Rack", "Rack", l) : l \in SeqUpTo(AddTokens, MaxChecks)}
UpdateViews == {View("Device", "Rack", l) : l \in SeqUpTo(UpdateTokens, MaxChecks)}

PipeUserGroups == {{}, {"A"}}
PipeNames == {None, Some("n1")}
PipeUnits == {u \in CompleteUnits : Val(u.first_unit) = 1 /\ Val(u.frontside_location)}

\* an add carries its unit fields: serializer.save() stores them
PipeAddPayloads ==
    Payloads({None}, Optional(RackIds) \ {None}, PipeUnits, PipeNames)
PipeUpdatePayloads ==
    Payloads(Optional(DeviceIds) \ {None}, {None}, PipeUnits \cup {NoUnits}, PipeNames)
PipeDeletePayloads ==
    Payloads(Optional(DeviceIds) \ {None}, {None}, {NoUnits}, {None})

\* one request is handled from each inventory: `last` records it
InitPipe ==
    /\ racks = InitialRacks
    /\ devices \in PipeInventories
    /\ names = EmptyNames
    /\ last = NoRequest
    /\ checks = NoChecks
    /\ response = NoResponse
    /\ in_flight = NoneInFlight

PipeAdd ==
    /\ last = NoRequest
    /\ \E view \in AddViews, user_groups \in PipeUserGroups, data \in PipeAddPayloads :
            /\ last' = Request("post", view, user_groups, data)
            /\ post(view, user_groups, data)
            /\ UNCHANGED in_flight

PipeUpdate ==
    /\ last = NoRequest
    /\ \E view \in UpdateViews, user_groups \in PipeUserGroups, data \in PipeUpdatePayloads :
            /\ last' = Request("put", view, user_groups, data)
            /\ put(view, user_groups, data)
            /\ UNCHANGED in_flight

PipeDelete ==
    /\ last = NoRequest
    /\ \E view \in UpdateViews, user_groups \in PipeUserGroups, data \in PipeDeletePayloads :
            /\ last' = Request("delete", view, user_groups, data)
            /\ delete(view, user_groups, data)
            /\ UNCHANGED in_flight

NextPipe == PipeAdd \/ PipeUpdate \/ PipeDelete

SpecPipe == InitPipe /\ [][NextPipe]_vars

Requested == last.op \in {"post", "put", "delete"}

\* the checks_list of the view of the recorded request
requested_list == last.view.checks_list

UnknownTokens == {i \in 1..Len(requested_list) : requested_list[i] \notin KnownChecks}

\* the handler of the recorded request reached get_checks: the object the
\* request names existed when it came in
TargetExisted ==
    last'.op = "post" \/ Val(last'.data.id) \in DOMAIN devices

\* the department that owned the object the request names
target_owner ==
    IF last'.op = "post" THEN racks[Val(last'.data.rack)].department
    ELSE racks[devices[Val(last'.data.id)].rack_id].department

-----------------------------------------------------------------------------
(* C7 *)

\* C7 as stated: when a check of the list fails, no later check of the list
\* is evaluated and the answer is exactly that first failure.
LaterChecksNotEvaluated ==
    (Requested /\ Failures # {})
    => /\ Len(checks.results) = FirstFailure
       /\ response = Response("invalid", checks.results[FirstFailure].message, 400)

\* C7 as amended: get_checks evaluates every check of a checks_list of known
\* tokens, also after one has failed, and when it has returned the answer
\* is exactly the first failure of the list.
FirstFailureReported ==
    (Requested /\ ~ checks.raised /\ Failures # {})
    => /\ Len(checks.results) = Len(requested_list)
       /\ response = Response("invalid", checks.results[FirstFailure].message, 400)

\* check_unique fails, check_device_for_add is evaluated after it and fails
\* too, and the answer is the duplicate-name failure
FirstFailureReportedWitness ==
    /\ Requested
    /\ requested_list = <<"check_unique", "check_device_for_add">>
    /\ checks.results = <<Result(FALSE, same_name_message),
                          Result(FALSE, units_busy_message)>>
    /\ response = Response("invalid", same_name_message, 400)

-----------------------------------------------------------------------------
(* C8 *)

\* C8: a request to a view whose checks_list holds an unknown token writes
\* nothing, and when its handler reaches get_checks, get_checks raises
\* ValueError instead of returning Results, wherever the token stands and
\* whatever the checks before it returned; the error is no 'invalid' answer.
UnknownCheckIsFatal ==
    [][(Requested' /\ UnknownTokens' # {})
       => /\ UNCHANGED <<racks, devices, names>>
          /\ TargetExisted
             => /\ checks'.raised
                /\ response' = ValueErrorResponse
                /\ response'.kind # "invalid"]_vars

\* the unknown token stands behind a check that failed
UnknownCheckWitness ==
    /\ Requested
    /\ Len(requested_list) = 2
    /\ UnknownTokens = {2}
    /\ checks.raised
    /\ Len(checks.results) = 1
    /\ ~ checks.results[1].success
    /\ response = ValueErrorResponse

-----------------------------------------------------------------------------
(* C9 *)

\* the Results of the checks of the list other than check_user
OtherChecksPassed ==
    \A i \in 1..Len(checks.results) :
        requested_list[i] # "check_user" => checks.results[i].success

\* C9: when the checks_list holds check_user and no group of the user is
\* the department owning the target, nothing is written, the answer is the
\* failure of the first failed check, and it is the permission alert when
\* every other check passed; when a group matches, _check_user succeeds.
PermissionDeniedBlocks ==
    [][(/\ Requested'
        /\ TargetExisted
        /\ \E i \in 1..Len(requested_list') : requested_list'[i] = "check_user")
       => IF last'.user_groups \cap {target_owner} = {}
          THEN /\ UNCHANGED <<racks, devices, names>>
               /\ response'.kind # "sucsess"
               /\ ~ checks'.raised
                  => /\ Failures' # {}
                     /\ response' = Response("invalid",
                                             checks'.results[FirstFailure'].message,
                                             400)
               /\ (~ checks'.raised /\ OtherChecksPassed')
                  => response'.message = permission_alert
          ELSE \A i \in 1..Len(checks'.results) :
                  requested_list'[i] = "check_user"
                  => checks'.results[i] = Success]_vars

\* the unit check passes, check_user behind it fails, and the add is
\* refused with the permission alert
PermissionDeniedWitness ==
    /\ Requested
    /\ last.op = "post"
    /\ requested_list = <<"check_device_for_add", "check_user">>
    /\ checks.results = <<Success, Result(FALSE, permission_alert)>>
    /\ response = Response("invalid", permission_alert, 400)

-----------------------------------------------------------------------------
(* _check_unique as a function of the names it reads *)

UniqueModels == {"Room", "Building"}
UniqueIds == {1, 2}

CallUnique(pk, fk, instance_name, key_name) ==
    [op |-> "_check_unique", pk |-> pk, fk |-> fk,
     instance_name |-> instance_name, key_name |-> key_name]

InitUnique ==
    /\ racks = InitialRacks
    /\ devices = EmptyDevices
    /\ names \in [UniqueIds \X UniqueModels -> SUBSET Names]
    /\ last = NoRequest
    /\ checks = NoChecks
    /\ response = NoResponse
    /\ in_flight = NoneInFlight

CallCheckUnique ==
    /\ last = NoRequest
    /\ \E pk \in UniqueIds, fk \in Optional(UniqueIds),
          instance_name \in Optional(Names), key_name \in Optional(Names) :
            /\ last' = CallUnique(pk, fk, instance_name, key_name)
            /\ checks' = Returned(_check_unique(pk, fk, "Room", "Building",
                                                instance_name, key_name))
            /\ UNCHANGED <<racks, devices, names, response, in_flight>>

NextUnique == CallCheckUnique

SpecUnique == InitUnique /\ [][NextUnique]_vars

CalledUnique == last.op = "_check_unique"

\* the sibling names of the scope the recorded call resolves to
resolved_scope ==
    IF last.fk = None THEN names[<<last.pk, "Room">>]
    ELSE names[<<Val(last.fk), "Building">>]

-----------------------------------------------------------------------------
(* C10 *)

\* C10: _check_unique succeeds whenever key_name equals instance_name,
\* whatever the sibling names and fk are, also when both names are absent.
UnchangedNameSucceeds ==
    (CalledUnique /\ last.key_name = last.instance_name) => returned = Success

\* the unchanged name stands among the siblings of the resolved scope
UnchangedNameWitness ==
    /\ CalledUnique
    /\ last.key_name = last.instance_name
    /\ last.key_name # None
    /\ Val(last.key_name) \in resolved_scope
    /\ returned = Success

-----------------------------------------------------------------------------
(* C11 *)

\* the sibling names of every scope other than the resolved one
other_scopes ==
    UNION {names[k] : k \in DOMAIN names \
              {IF last.fk = None THEN <<last.pk, "Room">>
               ELSE <<Val(last.fk), "Building">>}}

\* C11: when key_name differs from instance_name, _check_unique returns the
\* duplicate-name failure exactly when key_name is among the sibling names
\* of the resolved scope ((pk, model) when fk is None, (fk, fk_model)
\* otherwise), and Success in every other case, whatever the other scopes hold.
DuplicateExactlyInResolvedScope ==
    (CalledUnique /\ last.key_name # last.instance_name)
    => IF last.key_name # None /\ Val(last.key_name) \in resolved_scope
       THEN returned = Result(FALSE, same_name_message)
       ELSE returned = Success

\* fk is present, the new name stands among the siblings of (pk, model) and
\* not among those of (fk, fk_model), and the check succeeds
DuplicateInOtherScopeWitness ==
    /\ CalledUnique
    /\ last.fk # None
    /\ last.key_name # None
    /\ last.key_name # last.instance_name
    /\ Val(last.key_name) \in names[<<last.pk, "Room">>]
    /\ Val(last.key_name) \in other_scopes
    /\ Val(last.key_name) \notin resolved_scope
    /\ returned = Success

-----------------------------------------------------------------------------
(* C12 *)

MissingMessages ==
    {missing_first_unit, missing_last_unit, missing_frontside_location}

\* the message for the first field the recorded payload lacks, in the order
\* first_unit, last_unit, frontside_location
first_missing_message ==
    IF last.data.first_unit = None THEN missing_first_unit
    ELSE IF last.data.last_unit = None THEN missing_last_unit
    ELSE missing_frontside_location

\* C12: when the payload lacks first_unit, last_unit or frontside_location,
\* both device checks return the failure that names the first absent field,
\* whatever the inventory holds; that message is neither the out-of-range
\* nor the busy message; and a payload that carries all three fields, unit 0
\* and face False included, never gets a missing-data message.
MissingFieldFailsFirst ==
    CalledDeviceCheck
    => IF UnitsPresent
       THEN returned.message \notin MissingMessages
       ELSE /\ returned = Result(FALSE, first_missing_message)
            /\ returned.message \notin {units_exist_message, units_busy_message}

\* first_unit is 0 and present, last_unit is absent: the failure names
\* last_unit
MissingFieldWitness ==
    /\ CalledAdd
    /\ last.data.first_unit = Some(0)
    /\ last.data.last_unit = None
    /\ last.data.frontside_location = Some(FALSE)
    /\ devices # EmptyDevices
    /\ returned = Result(FALSE, missing_last_unit)

-----------------------------------------------------------------------------
(* C15 *)

\* C15: a request changes the persisted devices only when get_checks
\* returned and none of its Results is a failure, and the answer is then the
\* sucsess one; racks and names are never written; when some Result is a
\* failure the answer carries the message of the first one with status 400
\* and devices, racks and names stay as they were.
WriteOnlyAfterSuccess ==
    [][Requested'
       => /\ UNCHANGED <<racks, names>>
          /\ devices' # devices
             => /\ ~ checks'.raised
                /\ Failures' = {}
                /\ response'.kind = "sucsess"
          /\ (~ checks'.raised /\ Failures' # {})
             => /\ response' = Response("invalid",
                                        checks'.results[FirstFailure'].message,
                                        400)
                /\ UNCHANGED devices]_vars

\* a delete whose check_user failed: the answer is the permission alert
\* with status 400 and the device is still there
RefusedDeleteWitness ==
    /\ Requested
    /\ last.op = "delete"
    /\ ~ checks.raised
    /\ checks.results = <<Result(FALSE, permission_alert)>>
    /\ response = Response("invalid", permission_alert, 400)
    /\ Val(last.data.id) \in DOMAIN devices

-----------------------------------------------------------------------------
(* Requests handled side by side.  A handler reads the inventory when it    *)
(* runs its checks and writes it when it saves; these are two steps of the  *)
(* worker, and the steps of the other workers fall between them.            *)

\* the requests of the workers: placements that carry every unit field,
\* asked by a user who is in every department
RaceUserGroups == {"A", "B"}
RaceAddPayloads ==
    Payloads({None}, Optional(RackIds) \ {None}, CompleteUnits, {None})
RaceUpdatePayloads ==
    Payloads(Optional(DeviceIds) \ {None}, {None}, CompleteUnits, {None})

\* a worker whose request passed its checks and has not saved yet: the
\* locals of the handler, `seen` being the devices the checks read
Passed(op, pk, rack_id, data, seen) ==
    [stage |-> "passed", op |-> op, pk |-> pk, rack_id |-> rack_id,
     data |-> data, seen |-> seen]

\* a worker that answered status 400
Refused(message) == [stage |-> "refused", message |-> message]

\* a worker that saved: `device` is the id of the device it wrote
Saved(request, device) ==
    [stage |-> "saved", op |-> request.op, rack_id |-> request.rack_id,
     data |-> request.data, seen |-> request.seen, device |-> device]

\* BaseApiAddMixin.post up to the look at the Result
begin_post(w, view, user_groups, data) ==
    LET pk == Val(data.rack)
        got == get_checks(view.checks_list,
                          [user_groups |-> user_groups, pk |-> pk,
                           data |-> data, fk |-> None,
                           model |-> view.model, fk_model |-> None,
                           instance_name |-> None,
                           key_name |-> get_key_name(data)])
        result == get_checks_result(got.results)
    IN  /\ in_flight' = [in_flight EXCEPT ![w] =
                IF ~ result.success THEN Refused(result.message)
                ELSE Passed("post", pk, pk, data, devices)]
        /\ UNCHANGED <<racks, devices, names, last, checks, response>>

\* BaseApiUpdateMixin.put up to the look at the Result
begin_put(w, view, user_groups, request_data) ==
    LET pk == Val(request_data.id) IN
    IF pk \notin DOMAIN devices
    THEN /\ in_flight' = [in_flight EXCEPT ![w] =
                Refused("Device with this ID does not exist")]
         /\ UNCHANGED <<racks, devices, names, last, checks, response>>
    ELSE LET fk == devices[pk].rack_id
             data == update_rack_amount([request_data EXCEPT !.rack = Some(fk)], pk)
             got == get_checks(view.checks_list,
                               [user_groups |-> user_groups, pk |-> pk,
                                data |-> data, fk |-> Some(fk),
                                model |-> view.model,
                                fk_model |-> view.fk_model,
                                instance_name |-> get_instance_name(pk, view.model),
                                key_name |-> get_key_name(data)])
             result == get_checks_result(got.results)
         IN  /\ in_flight' = [in_flight EXCEPT ![w] =
                     IF ~ result.success THEN Refused(result.message)
                     ELSE Passed("put", pk, fk, data, devices)]
             /\ UNCHANGED <<racks, devices, names, last, checks, response>>

\* setattr(instance, key, value) for the items of data, then
\* instance.save(), `instance` being the object the handler fetched before
\* its checks
setattr_save(pk, instance, data) ==
    devices' = [devices EXCEPT ![pk] =
                   [rack_id |-> Val(data.rack),
                    first_unit |-> IF data.first_unit = None
                                   THEN instance.first_unit
                                   ELSE Val(data.first_unit),
                    last_unit |-> IF data.last_unit = None
                                  THEN instance.last_unit
                                  ELSE Val(data.last_unit),
                    frontside_location |->
                        IF data.frontside_location = None
                        THEN instance.frontside_location
                        ELSE Val(data.frontside_location),
                    name |-> IF data.name = None THEN instance.name
                             ELSE data.name]]

\* a write that is dropped when a device of another request stands on the
\* units by now
save_unless_busy(w) ==
    LET request == in_flight[w]
        device == IF request.op = "post" THEN new_device_id ELSE request.pk
        busy == \E d \in DOMAIN devices \ {device} :
                    /\ devices[d].rack_id = request.rack_id
                    /\ devices[d].frontside_location
                           = Val(request.data.frontside_location)
                    /\ overlaps(Val(request.data.first_unit),
                                Val(request.data.last_unit),
                                devices[d].first_unit, devices[d].last_unit)
    IN  /\ request.stage = "passed"
        /\ request.op = "post" => DOMAIN devices # DeviceIds
        /\ in_flight' = [in_flight EXCEPT ![w] = Saved(request, device)]
        /\ IF busy THEN UNCHANGED devices
           ELSE IF request.op = "post" THEN serializer_save(request.data)
           ELSE setattr_save(request.pk, request.seen[request.pk], request.data)
        /\ UNCHANGED <<racks, names, last, checks, response>>

\* the rest of post and put: the write of a request that passed its checks
save(w) ==
    LET request == in_flight[w] IN
    /\ request.stage = "passed"
    /\ IF request.op = "post"
       THEN /\ DOMAIN devices # DeviceIds
            /\ serializer_save(request.data)
            /\ in_flight' = [in_flight EXCEPT ![w] = Saved(request, new_device_id)]
       ELSE /\ setattr_save(request.pk, request.seen[request.pk], request.data)
            /\ in_flight' = [in_flight EXCEPT ![w] = Saved(request, request.pk)]
    /\ UNCHANGED <<racks, names, last, checks, response>>

\* each worker handles one request, on an inventory the device views can
\* build
InitRace ==
    /\ racks = InitialRacks
    /\ devices \in Inventories(racks)
    /\ names = EmptyNames
    /\ last = NoRequest
    /\ checks = NoChecks
    /\ response = NoResponse
    /\ in_flight = NoneInFlight

RaceAdd ==
    \E w \in Workers :
        /\ in_flight[w] = Idle
        /\ \E data \in RaceAddPayloads :
              begin_post(w, DeviceAddView, RaceUserGroups, data)

RaceUpdate ==
    \E w \in Workers :
        /\ in_flight[w] = Idle
        /\ \E data \in RaceUpdatePayloads :
              begin_put(w, DeviceUpdateView, RaceUserGroups, data)

RaceSave == \E w \in Workers : save(w)

NextRace == RaceAdd \/ RaceUpdate \/ RaceSave

SpecRace == InitRace /\ [][NextRace]_vars

\* the same workers when the storage layer serialises, rack by rack, the
\* read of the checks and the write: a handler waits while a request of
\* another worker for the same rack is between its checks and its save
rack_locked(rack_id) ==
    \E w \in Workers : /\ in_flight[w].stage = "passed"
                        /\ in_flight[w].rack_id = rack_id

SerialAdd ==
    \E w \in Workers :
        /\ in_flight[w] = Idle
        /\ \E data \in RaceAddPayloads :
              /\ ~ rack_locked(Val(data.rack))
              /\ begin_post(w, DeviceAddView, RaceUserGroups, data)

SerialUpdate ==
    \E w \in Workers :
        /\ in_flight[w] = Idle
        /\ \E data \in RaceUpdatePayloads :
              /\ Val(data.id) \in DOMAIN devices
                    => ~ rack_locked(devices[Val(data.id)].rack_id)
              /\ begin_put(w, DeviceUpdateView, RaceUserGroups, data)

SerialSave == \E w \in Workers : save(w)

NextSerial == SerialAdd \/ SerialUpdate \/ SerialSave

SpecSerial == InitRace /\ [][NextSerial]_vars

\* both workers have written
both_saved == \A w \in Workers : in_flight[w].stage = "saved"

\* the unit slots a request asks for
request_units(request) ==
    Val(request.data.first_unit) .. Val(request.data.last_unit)

\* two written requests put different devices on one face of one rack, on
\* intervals that share a unit
Colliding(r1, r2) ==
    /\ r1.device # r2.device
    /\ r1.rack_id = r2.rack_id
    /\ r1.data.frontside_location = r2.data.frontside_location
    /\ request_units(r1) \cap request_units(r2) # {}

-----------------------------------------------------------------------------
(* C13 *)

\* C13: when the read of the checks and the write are one step serialised
\* per rack, in every state reached by add and update requests of workers
\* running side by side no two devices of one rack on one face share a
\* unit, and never have two workers both written colliding placements.
SerialisedCommitsDisjoint ==
    /\ \A d1, d2 \in DOMAIN devices :
          (/\ d1 # d2
           /\ devices[d1].rack_id = devices[d2].rack_id
           /\ devices[d1].frontside_location = devices[d2].frontside_location)
          => ~ overlaps(devices[d1].first_unit, devices[d1].last_unit,
                        devices[d2].first_unit, devices[d2].last_unit)
    /\ ~ (both_saved /\ Colliding(in_flight["w1"], in_flight["w2"]))

\* on an empty inventory one worker added a device and the other, coming
\* after that write, was refused because the units are busy
SerialisedRefusalWitness ==
    /\ in_flight["w1"].stage = "saved"
    /\ in_flight["w1"].op = "post"
    /\ in_flight["w1"].seen = EmptyDevices
    /\ in_flight["w2"] = Refused(units_busy_message)
    /\ Cardinality(DOMAIN devices) = 1

-----------------------------------------------------------------------------
(* C16 *)

\* C16: with nothing between the checks and the save, whenever the two
\* workers passed their checks on the same devices and then wrote
\* colliding placements, both placements are committed: two devices of
\* one rack share a unit on one face.
StaleChecksCommitOverlap ==
    (/\ both_saved
     /\ in_flight["w1"].seen = in_flight["w2"].seen
     /\ Colliding(in_flight["w1"], in_flight["w2"]))
    => \E d1, d2 \in DOMAIN devices :
          /\ d1 # d2
          /\ devices[d1].rack_id = devices[d2].rack_id
          /\ devices[d1].frontside_location = devices[d2].frontside_location
          /\ device_units(d1) \cap device_units(d2) # {}

\* an add and an update that read the same devices wrote the same unit of
\* one face of one rack
StaleChecksWitness ==
    /\ both_saved
    /\ in_flight["w1"].op = "post"
    /\ in_flight["w2"].op = "put"
    /\ in_flight["w1"].seen = in_flight["w2"].seen
    /\ Colliding(in_flight["w1"], in_flight["w2"])
    /\ ~ NoOverlap

-----------------------------------------------------------------------------
(* Requests whose unit bounds come in any order *)

\* the unit fields of a payload, first_unit above last_unit included
AnyOrderUnits ==
    [first_unit : Optional(Units) \ {None}, last_unit : Optional(Units) \ {None},
     frontside_location : Optional(BOOLEAN) \ {None}]

AnyOrderAddPayloads ==
    Payloads({None}, Optional(RackIds) \ {None}, AnyOrderUnits, {None})
AnyOrderUpdatePayloads ==
    Payloads(Optional(DeviceIds) \ {None}, {None}, AnyOrderUnits, {None})

\* one request is handled from each inventory: `last` records it
InitAnyOrder ==
    /\ racks = InitialRacks
    /\ devices \in Inventories(racks)
    /\ names = EmptyNames
    /\ last = NoRequest
    /\ checks = NoChecks
    /\ response = NoResponse
    /\ in_flight = NoneInFlight

AnyOrderAdd ==
    /\ last = NoRequest
    /\ \E user_groups \in UserGroups, data \in AnyOrderAddPayloads :
            /\ last' = Request("post", DeviceAddView, user_groups, data)
            /\ post(DeviceAddView, user_groups, data)
            /\ UNCHANGED in_flight

AnyOrderUpdate ==
    /\ last = NoRequest
    /\ \E user_groups \in UserGroups, data \in AnyOrderUpdatePayloads :
            /\ last' = Request("put", DeviceUpdateView, user_groups, data)
            /\ put(DeviceUpdateView, user_groups, data)
            /\ UNCHANGED in_flight

NextAnyOrder == AnyOrderAdd \/ AnyOrderUpdate

SpecAnyOrder == InitAnyOrder /\ [][NextAnyOrder]_vars

-----------------------------------------------------------------------------
(* C14 *)

\* C14: no persisted device has first_unit above last_unit, and a request
\* with first_unit above last_unit that is accepted leaves every device
\* with both bounds inside its rack and no two devices of a face sharing a
\* unit.
InvertedNeverCommitted ==
    /\ \A d \in DOMAIN devices : devices[d].first_unit <= devices[d].last_unit
    /\ (/\ Requested
        /\ proposed_first > proposed_last
        /\ response.kind = "sucsess")
       => /\ \A d \in DOMAIN devices :
                /\ 1 <= devices[d].first_unit
                /\ devices[d].last_unit <= racks[devices[d].rack_id].rack_amount
          /\ NoOverlap

-----------------------------------------------------------------------------
(* The rack views: the same handlers at work on the Rack model.  A rack     *)
(* stands in a room, the foreign key of its views; room r holds rack r.     *)

RackAddView == View("Room", "Room", <<"check_user">>)
RackUpdateView == View("Rack", "Room", <<"check_user">>)
RackDeleteView == View("Rack", "Room", <<"check_user">>)

\* the amounts of units a rack payload may carry
RackAmounts == {1, 2}

\* request.data of the rack views
RackData(id, room, rack_amount) ==
    [id |-> id, room |-> room, rack_amount |-> rack_amount, name |-> None]

RackAddPayloads ==
    {RackData(None, room, rack_amount) :
        room \in Optional(RackIds), rack_amount \in Optional(RackAmounts) \ {None}}
RackUpdatePayloads ==
    {RackData(id, None, rack_amount) :
        id \in Optional(RackIds), rack_amount \in Optional(RackAmounts)}
RackDeletePayloads ==
    {RackData(id, None, None) : id \in Optional(RackIds)}

\* the arguments the rack handlers hand to get_checks
rack_kw(view, user_groups, pk, data) ==
    [user_groups |-> user_groups, pk |-> pk, data |-> data, fk |-> None,
     model |-> view.model, fk_model |-> view.fk_model,
     instance_name |-> None, key_name |-> None]

\* BaseApiAddMixin.post of the rack add view: pk is the room
rack_post(view, user_groups, data) ==
    IF data.room = None THEN Refuse("Need fk for post method", 200)
       ELSE LET pk == Val(data.room)
                got == get_checks(view.checks_list,
                                  rack_kw(view, user_groups, pk, data))
                result == get_checks_result(got.results)
            IN  /\ checks' = got
                /\ UNCHANGED <<devices, names>>
                /\ IF ~ result.success
                   THEN /\ response' = Response("invalid", result.message, 400)
                        /\ UNCHANGED racks
                   ELSE /\ pk \notin DOMAIN racks
                        /\ racks' = [r \in DOMAIN racks \cup {pk} |->
                                        IF r \in DOMAIN racks THEN racks[r]
                                        ELSE [rack_amount |-> Val(data.rack_amount),
                                              department |-> room_department(pk)]]
                        /\ response' = Response("sucsess", "sucsessfully added", 200)

\* BaseApiUpdateMixin.put of the rack update view
rack_put(view, user_groups, request_data) ==
    IF request_data.id = None THEN Refuse("Need id for put method", 200)
       ELSE LET pk == Val(request_data.id) IN
       IF pk \notin DOMAIN racks
       THEN Refuse("Rack with this ID does not exist", 400)
       ELSE LET data == update_rack_amount(request_data, pk)
                got == get_checks(view.checks_list,
                                  rack_kw(view, user_groups, pk, data))
                result == get_checks_result(got.results)
            IN  /\ checks' = got
                /\ UNCHANGED <<devices, names>>
                /\ IF ~ result.success
                   THEN /\ response' = Response("invalid", result.message, 400)
                        /\ UNCHANGED racks
                   ELSE /\ racks' = [racks EXCEPT ![pk].rack_amount =
                                        IF data.rack_amount = None THEN @
                                        ELSE Val(data.rack_amount)]
                        /\ response' = Response("sucsess", "sucsessfully updated", 200)

\* BaseApiDeleteMixin.delete of the rack delete view: the devices of the
\* rack go with it
rack_delete(view, user_groups, data) ==
    IF data.id = None THEN Refuse("Need id for delete method", 200)
       ELSE LET pk == Val(data.id) IN
       IF pk \notin DOMAIN racks
       THEN Refuse("Rack with this ID does not exist", 400)
       ELSE LET got == get_checks(view.checks_list,
                                  rack_kw(view, user_groups, pk, data))
                result == get_checks_result(got.results)
            IN  /\ checks' = got
                /\ UNCHANGED names
                /\ IF ~ result.success
                   THEN /\ response' = Response("invalid", result.message, 400)
                        /\ UNCHANGED <<racks, devices>>
                   ELSE /\ racks' = [r \in DOMAIN racks \ {pk} |-> racks[r]]
                        /\ devices' = [d \in {x \in DOMAIN devices :
                                                 devices[x].rack_id # pk} |->
                                          devices[d]]
                        /\ response' = Response("sucsess", "sucsessfully deleted", 200)

-----------------------------------------------------------------------------
(* One request to the rack and device views, on every inventory that keeps  *)
(* its devices inside their racks                                           *)

\* the acting user is in no department or in every one
OutsiderOrMember == {{}, {"A", "B"}}

\* the unit fields of a placement request: every field, first_unit from 1
PlacedUnits == {u \in CompleteUnits : Val(u.first_unit) >= 1}

RacksDeviceAddPayloads ==
    Payloads({None}, Optional(RackIds) \ {None}, PlacedUnits, {None})

\* a device update may name any rack
RacksDeviceUpdatePayloads ==
    Payloads(Optional(DeviceIds) \ {None}, Optional(RackIds), PlacedUnits, {None})

\* what `last` keeps of a request to these views
Asked(op, data) == [op |-> op, data |-> data]

\* the racks the rack views can build: any of the rooms holds its rack
RackMaps ==
    UNION {[S -> [rack_amount : RackAmounts, department : Departments]] :
              S \in SUBSET RackIds}

InitInventory ==
    /\ racks \in {m \in RackMaps :
                     \A r \in DOMAIN m : m[r].department = room_department(r)}
    /\ devices \in Inventories(racks)
    /\ names = EmptyNames
    /\ last = NoRequest
    /\ checks = NoChecks
    /\ response = NoResponse
    /\ in_flight = NoneInFlight

RacksDeviceAdd ==
    /\ last = NoRequest
    /\ \E data \in RacksDeviceAddPayloads :
            /\ post(DeviceAddView, RaceUserGroups, data)
            /\ last' = Asked("post", data)
            /\ UNCHANGED in_flight

RacksDeviceUpdate ==
    /\ last = NoRequest
    /\ \E data \in RacksDeviceUpdatePayloads :
            /\ put(DeviceUpdateView, RaceUserGroups, data)
            /\ last' = Asked("put", data)
            /\ UNCHANGED in_flight

RacksDeviceDelete ==
    /\ last = NoRequest
    /\ \E data \in DeletePayloads :
            /\ delete(DeviceDeleteView, RaceUserGroups, data)
            /\ last' = Asked("delete", data)
            /\ UNCHANGED in_flight

RackAdd ==
    /\ last = NoRequest
    /\ \E user_groups \in OutsiderOrMember, data \in RackAddPayloads :
            /\ rack_post(RackAddView, user_groups, data)
            /\ last' = Asked("rack_post", data)
            /\ UNCHANGED in_flight

RackUpdate ==
    /\ last = NoRequest
    /\ \E user_groups \in OutsiderOrMember, data \in RackUpdatePayloads :
            /\ rack_put(RackUpdateView, user_groups, data)
            /\ last' = Asked("rack_put", data)
            /\ UNCHANGED in_flight

RackDelete ==
    /\ last = NoRequest
    /\ \E user_groups \in OutsiderOrMember, data \in RackDeletePayloads :
            /\ rack_delete(RackDeleteView, user_groups, data)
            /\ last' = Asked("rack_delete", data)
            /\ UNCHANGED in_flight

NextRacks ==
    \/ RacksDeviceAdd \/ RacksDeviceUpdate \/ RacksDeviceDelete
    \/ RackAdd \/ RackUpdate \/ RackDelete

SpecRacks == InitInventory /\ [][NextRacks]_vars

-----------------------------------------------------------------------------
(* C17 *)

\* every persisted device stands in a persisted rack, on an interval
\* inside [1, rack_amount] of that rack
DevicesInsideRack ==
    \A d \in DOMAIN devices :
        /\ devices[d].rack_id \in DOMAIN racks
        /\ 1 <= devices[d].first_unit
        /\ devices[d].first_unit <= devices[d].last_unit
        /\ devices[d].last_unit <= racks[devices[d].rack_id].rack_amount

\* a request leaves every rack it keeps with its amount of units, and
\* every device it keeps in its rack
RackKept ==
    /\ \A r \in DOMAIN racks \cap DOMAIN racks' :
          racks'[r].rack_amount = racks[r].rack_amount
    /\ \A d \in DOMAIN devices \cap DOMAIN devices' :
          devices'[d].rack_id = devices[d].rack_id

====
